---- MODULE Spec2Model ----
(***************************************************************************)
(* The DCA scheduling and swap-execution engine of smoothswap:             *)
(* src/hooks/useDCA.ts (the scheduler hook) with the executor of           *)
(* src/services/realSwapService.ts.                                        *)
(*                                                                         *)
(* The hook is a React function component hook.  Every callback it hands   *)
(* out closes over the values of the render that created it, so the model  *)
(* keeps the committed state (config, isExecutingSwap, ...) apart from     *)
(* `rendered`, the values the callbacks of the last render see.  A timer   *)
(* armed by setInterval keeps the closure of the render that armed it.     *)
(* Functional updates (setX(prev => ...)) act on the committed state.      *)
(*                                                                         *)
(* Units: balances and amountIn are in cents; swapAmount is in 1/100 of a  *)
(* cent (balance in cents times the percentage).  A time of n milliseconds *)
(* is held as the pair [s |-> n \div 1000, ms |-> n % 1000], because the   *)
(* longest interval of the days tier, 2592000000 ms, does not fit the      *)
(* 32-bit integers of the model checker.                                   *)
(***************************************************************************)
EXTENDS Integers, Sequences, FiniteSets, TLC

VARIABLES
    phase,            \* "created" before the first commit, "mounted", then "unmounted"
    config,           \* useState<DCAConfig>
    currentTier,      \* useState<FrequencyTier>
    sliderValue,      \* useState(50)
    swapHistory,      \* useState<SwapResult[]>
    totalSwapped,     \* useState(0), in cents
    isExecutingSwap,  \* useState(false)
    intervalRef,      \* useRef: id of the action ticker, or NoTimer
    countdownRef,     \* useRef: id of the countdown ticker, or NoTimer
    actionTimers,     \* armed setInterval(runSwap, period) timers
    countdownTimers,  \* armed setInterval(countdown, 100) timers (ids)
    balance,          \* useWallet().balance
    address,          \* useAccount().address
    rendered,         \* what the callbacks of the last render close over
    inflight,         \* attempts suspended inside executeRealSwap
    nextAttempt,      \* number of attempts that reached executeRealSwap
    swapCalls,        \* calls of sendTransaction so far
    priceCalls,       \* calls of getTokenPrice so far
    refreshRequests,  \* balance refreshes requested so far
    recorded,         \* every outcome handed to handleOnchainKitSwap, oldest first
    inputs,           \* reconfiguration and wallet events so far
    lastEvent         \* what the last step was, when the state does not show it

vars == <<phase, config, currentTier, sliderValue, swapHistory, totalSwapped,
          isExecutingSwap, intervalRef, countdownRef, actionTimers,
          countdownTimers, balance, address, rendered, inflight, nextAttempt,
          swapCalls, priceCalls, refreshRequests, recorded, inputs, lastEvent>>

----------------------------------------------------------------------------
(* Bounds *)

MaxRecords == 2           \* attempts followed: outcomes recorded plus attempts in flight
MaxTimers == 2            \* action tickers armed at the same time
MaxInputs == 1            \* reconfiguration and wallet events
MaxCountdownTicks == 1    \* countdown firings followed below the frequency
MaxHistoryCalls == 11     \* direct handleOnchainKitSwap calls
MaxFrequencyInputs == 2   \* tier and control value changes
MaxCountdownSeconds == 2  \* frequencies, in seconds, whose countdown is followed to 0
MaxMapperInputs == 3      \* tier and control value changes given to the mapper

----------------------------------------------------------------------------
(* Program constants *)

NoTimer == 0
NoAddress == ""
UserAddress == "0xUser"
NoBalance == "undefined"
NoResult == [success |-> FALSE, error |-> "", amountIn |-> 0, amountOut |-> "",
             txHash |-> FALSE, price |-> FALSE, isReal |-> "absent", note |-> "",
             noteError |-> "", attempt |-> 0]

(* n milliseconds, n = sec * 1000 + ms *)
Ms(sec, ms) == [s |-> sec, ms |-> ms]
NoTime == Ms(0, 0)

HistoryLimit == 10
CountdownStep == 100
FallbackFrequency == Ms(3600, 0)
InitialFrequency == Ms(3600, 0)
DefaultPercentage == 1
MinSwapAmount == 100            \* 0.01 dollars, in 1/100 cent
MaxSwapAmount == 100000000      \* 10000 dollars, in 1/100 cent
ManualPercentage == 1           \* the 0.01 of the manual trigger's amountUSD

USDC == [symbol |-> "USDC", address |-> "0x8335", decimals |-> 6]
ETH == [symbol |-> "ETH", address |-> "0x4200", decimals |-> 18]
DAI == [symbol |-> "DAI", address |-> "0x50c5", decimals |-> 18]
USDbC == [symbol |-> "USDbC", address |-> "0xd9aA", decimals |-> 6]
BASE_TOKENS == <<USDC, ETH, DAI, USDbC>>
DEFAULT_SOURCE_TOKEN == BASE_TOKENS[1]
DEFAULT_TARGET_TOKEN == BASE_TOKENS[2]

SLIDER_TIERS ==
    << [tier |-> "days", min |-> 86400, max |-> 2592000],
       [tier |-> "hours", min |-> 3600, max |-> 86400],
       [tier |-> "minutes", min |-> 60, max |-> 3600],
       [tier |-> "seconds", min |-> 1, max |-> 60] >>

Tiers == {SLIDER_TIERS[i].tier : i \in 1..Len(SLIDER_TIERS)}

(* Inputs the model draws from *)
TokenChoices == {USDC, ETH}
SliderChoices == {0, 100}
BalanceChoices == {"0.00", "0.50", "500.00", "1000100.00"}
SendErrors == {"Insufficient funds for gas"}
SwapErrors == {"Insufficient funds for gas", "User rejected the request",
               "User denied transaction signature", "Network request failed",
               "Failed to fetch", "execution reverted",
               "insufficient allowance: user rejected", "User denied network switch"}
FrequencyValues == {0, 1, 50, 99, 100}
ControlValues == 0..100
PreconditionBalances == BalanceChoices \cup {"-5.00"}
ManualBalances == {"0.30", "500.00"}
UnknownTiers == {"weeks"}       \* a tier SLIDER_TIERS has no entry for

----------------------------------------------------------------------------
(* Helpers *)

Min(a, b) == IF a < b THEN a ELSE b
Max(a, b) == IF a > b THEN a ELSE b

(* Math.round of the rational num/den, den > 0 *)
MathRound(num, den) == (2 * num + den) \div (2 * den)

(* Math.round(x * 1000) for x = num/den seconds, as a time *)
RoundToMs(num, den) ==
    LET whole == num \div den
        part == MathRound((num % den) * 1000, den)
    IN  IF part >= 1000 THEN Ms(whole + 1, part - 1000) ELSE Ms(whole, part)

(* t - d for a time t and 0 <= d < 1000 milliseconds; negative when t < d *)
TimeMinus(t, d) ==
    IF t.ms >= d THEN Ms(t.s, t.ms - d) ELSE Ms(t.s - 1, t.ms + 1000 - d)

(* Math.max(0, t) *)
TimeMax0(t) == IF t.s < 0 THEN NoTime ELSE t

TimeLeq(a, b) == a.s < b.s \/ (a.s = b.s /\ a.ms <= b.ms)

(* parseFloat on the balance strings the wallet produces, in cents *)
ParseFloat(s) ==
    CASE s = "0" -> 0
      [] s = "0.00" -> 0
      [] s = "0.30" -> 30
      [] s = "0.50" -> 50
      [] s = "500.00" -> 50000
      [] s = "1000100.00" -> 100010000
      [] s = "-5.00" -> -500
      [] OTHER -> 0

(* balance || '0' *)
BalanceOrZero(b) == IF b = NoBalance \/ b = "" THEN "0" ELSE b

(* Number.toFixed(2): 1/100 cent rounded to cents *)
ToFixed2(amount) == (amount + 50) \div 100

(* the words of an error message *)
Words(message) ==
    CASE message = "Insufficient funds for gas" -> <<"Insufficient", "funds", "for", "gas">>
      [] message = "execution reverted" -> <<"execution", "reverted">>
      [] message = "User rejected the request"
           -> <<"User", "rejected", "the", "request">>
      [] message = "User denied transaction signature"
           -> <<"User", "denied", "transaction", "signature">>
      [] message = "Network request failed" -> <<"Network", "request", "failed">>
      [] message = "Failed to fetch" -> <<"Failed", "to", "fetch">>
      [] message = "insufficient allowance: user rejected"
           -> <<"insufficient", "allowance:", "user", "rejected">>
      [] message = "User denied network switch"
           -> <<"User", "denied", "network", "switch">>
      [] message = "Invalid swap amount" -> <<"Invalid", "swap", "amount">>
      [] message = "Unsupported token pair" -> <<"Unsupported", "token", "pair">>
      [] OTHER -> <<message>>

(* msg.toLowerCase(), on a sequence of words *)
ToLowerCase(msg) ==
    [i \in 1..Len(msg) |->
        CASE msg[i] = "Insufficient" -> "insufficient"
          [] msg[i] = "User" -> "user"
          [] msg[i] = "Network" -> "network"
          [] msg[i] = "Failed" -> "failed"
          [] OTHER -> msg[i]]

(* msg.includes(pat), both sequences of words *)
Includes(msg, pat) ==
    \E i \in 0..(Len(msg) - Len(pat)) :
        \A j \in 1..Len(pat) : msg[i + j] = pat[j]

----------------------------------------------------------------------------
(* Frequency mapper *)

(* a lookup that falls back to the first tier when none matches *)
TierConfig_DefaultsToFirst(tier) ==
    IF \E i \in 1..Len(SLIDER_TIERS) : SLIDER_TIERS[i].tier = tier
    THEN SLIDER_TIERS[CHOOSE i \in 1..Len(SLIDER_TIERS) :
                        /\ SLIDER_TIERS[i].tier = tier
                        /\ \A j \in 1..(i - 1) : SLIDER_TIERS[j].tier # tier]
    ELSE SLIDER_TIERS[1]

(* SLIDER_TIERS.find(t => t.tier === tier); the tier "none" stands for undefined *)
TierConfig(tier) ==
    IF \E i \in 1..Len(SLIDER_TIERS) : SLIDER_TIERS[i].tier = tier
    THEN SLIDER_TIERS[CHOOSE i \in 1..Len(SLIDER_TIERS) :
                        /\ SLIDER_TIERS[i].tier = tier
                        /\ \A j \in 1..(i - 1) : SLIDER_TIERS[j].tier # tier]
    ELSE [tier |-> "none", min |-> 0, max |-> 0]

(* the mapping without the inversion: min + range * value/100 seconds *)
calculateFrequency_NotInverted(value, tier) ==
    LET tierConfig == TierConfig(tier)
        range == tierConfig.max - tierConfig.min
    IN  IF tierConfig.tier = "none"
        THEN FallbackFrequency
        ELSE RoundToMs(tierConfig.min * 100 + range * value, 100)

(* the mapping rounded to whole seconds: Math.round(frequency) * 1000 *)
calculateFrequency_WholeSeconds(value, tier) ==
    LET tierConfig == TierConfig(tier)
        range == tierConfig.max - tierConfig.min
    IN  IF tierConfig.tier = "none"
        THEN FallbackFrequency
        ELSE Ms(MathRound(tierConfig.min * 100 + range * (100 - value), 100), 0)

(* the mapping over twice the range: min + 2 * range * (1 - value/100) seconds *)
calculateFrequency_TwiceRange(value, tier) ==
    LET tierConfig == TierConfig(tier)
        range == tierConfig.max - tierConfig.min
    IN  IF tierConfig.tier = "none"
        THEN FallbackFrequency
        ELSE RoundToMs(tierConfig.min * 100 + 2 * range * (100 - value), 100)

(* frequency = min + range * (1 - value/100) seconds; Math.round(frequency * 1000) *)
calculateFrequency(value, tier) ==
    LET tierConfig == TierConfig(tier)
        range == tierConfig.max - tierConfig.min
    IN  IF tierConfig.tier = "none"
        THEN FallbackFrequency
        ELSE RoundToMs(tierConfig.min * 100 + range * (100 - value), 100)

(* the effect without its test of prev.isActive *)
FrequencyEffect_AlwaysResets(prev, value, tier) ==
    LET newFrequency == calculateFrequency(value, tier)
    IN  [prev EXCEPT !.frequency = newFrequency, !.nextSwapIn = newFrequency]

(* the effect on [sliderValue, currentTier] *)
FrequencyEffect(prev, value, tier) ==
    LET newFrequency == calculateFrequency(value, tier)
    IN  [prev EXCEPT !.frequency = newFrequency,
                     !.nextSwapIn = IF prev.isActive THEN newFrequency ELSE NoTime]

----------------------------------------------------------------------------
(* History and totals *)

(* a state setter called with next: React drops it once the hook is unmounted *)
SetState(current, next) == IF phase = "unmounted" THEN current ELSE next

(* slice(0, 10) in place of slice(0, 9) *)
PrependHistory_KeepTen(prev, result) ==
    <<result>> \o SubSeq(prev, 1, Min(Len(prev), HistoryLimit))

PrependHistory(prev, result) ==
    <<result>> \o SubSeq(prev, 1, Min(Len(prev), HistoryLimit - 1))

(* the total without the test of result.success *)
AddTotal_AnyOutcome(prev, result) == prev + result.amountIn

AddTotal(prev, result) ==
    IF result.success THEN prev + result.amountIn ELSE prev

(* an outcome dropped when the scheduler has been stopped *)
handleOnchainKitSwap_OnlyWhileActive(result) ==
    IF config.isActive
    THEN /\ swapHistory' = PrependHistory(swapHistory, result)
         /\ totalSwapped' = AddTotal(totalSwapped, result)
         /\ recorded' = Append(recorded, result)
    ELSE UNCHANGED <<swapHistory, totalSwapped, recorded>>

(* an outcome recorded twice, as by a catch block that records the result *)
(* the try block has recorded already                                     *)
handleOnchainKitSwap_RecordsTwice(result) ==
    /\ swapHistory' = SetState(swapHistory,
                         PrependHistory(PrependHistory(swapHistory, result), result))
    /\ totalSwapped' = SetState(totalSwapped,
                          AddTotal(AddTotal(totalSwapped, result), result))
    /\ recorded' = Append(Append(recorded, result), result)

handleOnchainKitSwap(result) ==
    /\ swapHistory' = SetState(swapHistory, PrependHistory(swapHistory, result))
    /\ totalSwapped' = SetState(totalSwapped, AddTotal(totalSwapped, result))
    /\ recorded' = Append(recorded, result)

----------------------------------------------------------------------------
(* Executor: validation and results *)

validateRealSwap(sourceToken, targetToken, amountUSD, userBalance) ==
    IF amountUSD < MinSwapAmount
    THEN [valid |-> FALSE, error |-> "Minimum swap amount is $0.01"]
    ELSE IF amountUSD > MaxSwapAmount
    THEN [valid |-> FALSE, error |-> "Maximum swap amount is $10,000"]
    ELSE IF sourceToken.address = targetToken.address
    THEN [valid |-> FALSE, error |-> "Cannot swap token with itself"]
    ELSE IF ParseFloat(BalanceOrZero(userBalance)) * 100 < amountUSD
    THEN [valid |-> FALSE, error |-> "Insufficient balance. Have/Need"]
    ELSE [valid |-> TRUE, error |-> ""]

(* currentBalance * (config.percentage / 100), in 1/100 cent *)
SwapAmount(cl) == ParseFloat(BalanceOrZero(cl.balance)) * cl.percentage

(* the error thrown inside the try block before executeRealSwap, "" if none *)
ThrownError(cl) ==
    LET currentBalance == ParseFloat(BalanceOrZero(cl.balance))
        validation == validateRealSwap(cl.sourceToken, cl.targetToken,
                                       SwapAmount(cl), BalanceOrZero(cl.balance))
    IN  IF currentBalance = 0 THEN "Insufficient balance"
        ELSE IF SwapAmount(cl) < MinSwapAmount THEN "Swap amount too small"
        ELSE IF ~validation.valid THEN validation.error
        ELSE ""

sendTransactionAvailable == TRUE

(* mutant of EarlyReturn: the in-flight guard is not read, so a firing that *)
(* meets an outstanding attempt goes ahead                                  *)
EarlyReturn_GuardIgnored(cl) ==
    IF cl.address = NoAddress \/ ~sendTransactionAvailable
    THEN "Wallet not connected or transaction function unavailable"
    ELSE ""

(* the early returns of executeSingleSwap: "" when the attempt goes on *)
EarlyReturn(cl) ==
    IF cl.isExecutingSwap THEN "Swap already in progress"
    ELSE IF cl.address = NoAddress \/ ~sendTransactionAvailable
    THEN "Wallet not connected or transaction function unavailable"
    ELSE ""

ErrorResult(message) ==
    [NoResult EXCEPT !.error = message, !.amountOut = "0"]

TOKEN_ADDRESSES == {"USDC", "ETH", "DAI", "USDbC"}

(* the classification with the test for a rejection by the user made first *)
ClassifyError_RejectedFirst(message) ==
    LET msg == ToLowerCase(Words(message))
    IN  IF Includes(msg, <<"user", "rejected">>) \/ Includes(msg, <<"user", "denied">>)
        THEN "Transaction rejected - please reconnect wallet"
        ELSE IF Includes(msg, <<"insufficient">>)
        THEN "Insufficient balance or liquidity"
        ELSE IF Includes(msg, <<"network">>) \/ Includes(msg, <<"fetch">>)
        THEN "Network error, please try again"
        ELSE message

(* the catch block of executeRealSwap: the message kept for the outcome *)
ClassifyError(message) ==
    LET msg == ToLowerCase(Words(message))
    IN  IF Includes(msg, <<"insufficient">>)
        THEN "Insufficient balance or liquidity"
        ELSE IF Includes(msg, <<"user", "rejected">>) \/ Includes(msg, <<"user", "denied">>)
        THEN "Transaction rejected - please reconnect wallet"
        ELSE IF Includes(msg, <<"network">>) \/ Includes(msg, <<"fetch">>)
        THEN "Network error, please try again"
        ELSE message

RealResult(a) ==
    [success |-> TRUE, error |-> "", amountIn |-> a.amountIn, amountOut |-> "expected",
     txHash |-> TRUE, price |-> TRUE, isReal |-> "true",
     note |-> "Invisible swap executed via smart wallet + Aerodrome DEX",
     noteError |-> "", attempt |-> a.id]

(* a simulated success carrying the tag of a real execution *)
SimulationResult_TaggedReal(a, isSuccess) ==
    IF isSuccess
    THEN [success |-> TRUE, error |-> "", amountIn |-> a.amountIn, amountOut |-> "simulated",
          txHash |-> TRUE, price |-> TRUE, isReal |-> "true",
          note |-> "Smart wallet swap failed. Showing simulation.",
          noteError |-> a.errorMessage, attempt |-> a.id]
    ELSE [success |-> FALSE, error |-> "Simulated network congestion",
          amountIn |-> a.amountIn, amountOut |-> "0",
          txHash |-> FALSE, price |-> FALSE, isReal |-> "absent",
          note |-> "Smart wallet swap failed. Showing simulation.",
          noteError |-> a.errorMessage, attempt |-> a.id]

(* a failed simulation reported under the error of the submission *)
SimulationResult_KeepsSwapError(a, isSuccess) ==
    IF isSuccess
    THEN [success |-> TRUE, error |-> "", amountIn |-> a.amountIn, amountOut |-> "simulated",
          txHash |-> TRUE, price |-> TRUE, isReal |-> "false",
          note |-> "Smart wallet swap failed. Showing simulation.",
          noteError |-> a.errorMessage, attempt |-> a.id]
    ELSE [success |-> FALSE, error |-> a.errorMessage,
          amountIn |-> a.amountIn, amountOut |-> "0",
          txHash |-> FALSE, price |-> FALSE, isReal |-> "absent",
          note |-> "Smart wallet swap failed. Showing simulation.",
          noteError |-> a.errorMessage, attempt |-> a.id]

SimulationResult(a, isSuccess) ==
    IF isSuccess
    THEN [success |-> TRUE, error |-> "", amountIn |-> a.amountIn, amountOut |-> "simulated",
          txHash |-> TRUE, price |-> TRUE, isReal |-> "false",
          note |-> "Smart wallet swap failed. Showing simulation.",
          noteError |-> a.errorMessage, attempt |-> a.id]
    ELSE [success |-> FALSE, error |-> "Simulated network congestion",
          amountIn |-> a.amountIn, amountOut |-> "0",
          txHash |-> FALSE, price |-> FALSE, isReal |-> "absent",
          note |-> "Smart wallet swap failed. Showing simulation.",
          noteError |-> a.errorMessage, attempt |-> a.id]

----------------------------------------------------------------------------
(* Renders and closures *)

ViewOf(c, b, a, x) ==
    [isActive |-> c.isActive, frequency |-> c.frequency,
     sourceToken |-> c.sourceToken, targetToken |-> c.targetToken,
     percentage |-> c.percentage, balance |-> b, address |-> a,
     isExecutingSwap |-> x]

View == ViewOf(config, balance, address, isExecutingSwap)

TimerIds == {t.id : t \in actionTimers} \cup countdownTimers

(* setInterval returns an id no armed timer and no ref holds *)
FreshTimer(used) == CHOOSE n \in 1..(Cardinality(used) + 1) : n \notin used

(* clearInterval(id) *)
ClearAction(timers, id) == {t \in timers : t.id # id}
ClearCountdown(timers, id) == timers \ {id}

----------------------------------------------------------------------------
(* Initial state and first commit *)

Init ==
    /\ phase = "created"
    /\ config = [sourceToken |-> DEFAULT_SOURCE_TOKEN,
                 targetToken |-> DEFAULT_TARGET_TOKEN,
                 frequency |-> InitialFrequency,
                 percentage |-> DefaultPercentage,
                 isActive |-> FALSE,
                 nextSwapIn |-> NoTime]
    /\ currentTier = "hours"
    /\ sliderValue = 50
    /\ swapHistory = <<>>
    /\ totalSwapped = 0
    /\ isExecutingSwap = FALSE
    /\ intervalRef = NoTimer
    /\ countdownRef = NoTimer
    /\ actionTimers = {}
    /\ countdownTimers = {}
    /\ balance = NoBalance
    /\ address = UserAddress
    /\ rendered = ViewOf(config, balance, address, isExecutingSwap)
    /\ inflight = {}
    /\ nextAttempt = 0
    /\ swapCalls = 0
    /\ priceCalls = 0
    /\ refreshRequests = 0
    /\ recorded = <<>>
    /\ inputs = 0
    /\ lastEvent = "-"

(* The first commit: the frequency effect runs, the wallet hook publishes a balance. *)
Mount ==
    /\ phase = "created"
    /\ phase' = "mounted"
    /\ config' = FrequencyEffect(config, sliderValue, currentTier)
    /\ \E b \in BalanceChoices : balance' = b
    /\ rendered' = ViewOf(config', balance', address, isExecutingSwap)
    /\ lastEvent' = "-"
    /\ UNCHANGED <<currentTier, sliderValue, swapHistory, totalSwapped,
                   isExecutingSwap, intervalRef, countdownRef, actionTimers,
                   countdownTimers, address, inflight, nextAttempt, swapCalls,
                   priceCalls, refreshRequests, recorded, inputs>>

(* React commits a render: new callbacks close over the committed state. *)
Render ==
    /\ phase = "mounted"
    /\ rendered # View
    /\ rendered' = View
    /\ lastEvent' = "-"
    /\ UNCHANGED <<phase, config, currentTier, sliderValue, swapHistory,
                   totalSwapped, isExecutingSwap, intervalRef, countdownRef,
                   actionTimers, countdownTimers, balance, address, inflight,
                   nextAttempt, swapCalls, priceCalls, refreshRequests, recorded,
                   inputs>>

----------------------------------------------------------------------------
(* Scheduler: start, stop, countdown *)

(* startDCA without its balance guard *)
StartGuard_NoBalanceGuard(cl) ==
    IF cl.isActive THEN "startActive" ELSE "startOk"

(* the guards of startDCA, on the values its closure holds *)
StartGuard(cl) ==
    IF cl.isActive THEN "startActive"
    ELSE IF ParseFloat(BalanceOrZero(cl.balance)) = 0 THEN "startZero"
    ELSE "startOk"

(* setConfig(prev => ({ ...prev, isActive: true, nextSwapIn: prev.frequency })) *)
StartConfig(prev) == [prev EXCEPT !.isActive = TRUE, !.nextSwapIn = prev.frequency]

(* setConfig(prev => ({ ...prev, isActive: false, nextSwapIn: 0 })) *)
StopConfig(prev) == [prev EXCEPT !.isActive = FALSE, !.nextSwapIn = NoTime]

(* runSwap without its reset of the countdown *)
ResetCountdown_Skipped(prev) == prev

(* setConfig(prev => ({ ...prev, nextSwapIn: prev.frequency })) in runSwap *)
ResetCountdown(prev) == [prev EXCEPT !.nextSwapIn = prev.frequency]

(* the countdown without its floor: prev.nextSwapIn - 100 *)
CountdownValue_NoFloor(nextSwapIn) == TimeMinus(nextSwapIn, CountdownStep)

(* Math.max(0, prev.nextSwapIn - 100) *)
CountdownValue(nextSwapIn) == TimeMax0(TimeMinus(nextSwapIn, CountdownStep))

(* the countdown ticker startCountdown leaves armed: the one in the ref is cleared *)
startCountdown(timers, ref) ==
    LET kept == IF ref # NoTimer THEN ClearCountdown(timers, ref) ELSE timers
        id == FreshTimer({t.id : t \in actionTimers} \cup kept \cup {intervalRef})
    IN  [timers |-> kept \cup {id}, ref |-> id]

(* the action ticker setInterval(runSwap, config.frequency) arms; the ref is overwritten *)
ArmAction(timers, cl, used) ==
    LET id == FreshTimer(used)
    IN  [timers |-> timers \cup {[id |-> id, period |-> cl.frequency, closure |-> cl]},
         ref |-> id]

(* a start that begins a new session: history and total cleared *)
StartDCA_ClearsTotals ==
    /\ phase = "mounted"
    /\ LET verdict == StartGuard(rendered) IN
       /\ lastEvent' = verdict
       /\ IF verdict # "startOk"
          THEN UNCHANGED <<config, intervalRef, countdownRef, actionTimers,
                           countdownTimers, swapHistory, totalSwapped>>
          ELSE LET cd == startCountdown(countdownTimers, countdownRef)
                   act == ArmAction(actionTimers, rendered,
                                    {t.id : t \in actionTimers} \cup cd.timers
                                        \cup {intervalRef})
               IN  /\ config' = StartConfig(config)
                   /\ countdownTimers' = cd.timers
                   /\ countdownRef' = cd.ref
                   /\ actionTimers' = act.timers
                   /\ intervalRef' = act.ref
                   /\ swapHistory' = <<>>
                   /\ totalSwapped' = 0
    /\ UNCHANGED <<phase, currentTier, sliderValue,
                   isExecutingSwap, balance, address, rendered, inflight,
                   nextAttempt, swapCalls, priceCalls, refreshRequests, recorded,
                   inputs>>

StartDCA ==
    /\ phase = "mounted"
    /\ LET verdict == StartGuard(rendered) IN
       /\ lastEvent' = verdict
       /\ IF verdict # "startOk"
          THEN UNCHANGED <<config, intervalRef, countdownRef, actionTimers,
                           countdownTimers>>
          ELSE LET cd == startCountdown(countdownTimers, countdownRef)
                   act == ArmAction(actionTimers, rendered,
                                    {t.id : t \in actionTimers} \cup cd.timers
                                        \cup {intervalRef})
               IN  /\ config' = StartConfig(config)
                   /\ countdownTimers' = cd.timers
                   /\ countdownRef' = cd.ref
                   /\ actionTimers' = act.timers
                   /\ intervalRef' = act.ref
    /\ UNCHANGED <<phase, currentTier, sliderValue, swapHistory, totalSwapped,
                   isExecutingSwap, balance, address, rendered, inflight,
                   nextAttempt, swapCalls, priceCalls, refreshRequests, recorded,
                   inputs>>

StopDCA ==
    /\ phase = "mounted"
    /\ config' = StopConfig(config)
    /\ actionTimers' = IF intervalRef # NoTimer
                       THEN ClearAction(actionTimers, intervalRef)
                       ELSE actionTimers
    /\ intervalRef' = NoTimer
    /\ countdownTimers' = IF countdownRef # NoTimer
                          THEN ClearCountdown(countdownTimers, countdownRef)
                          ELSE countdownTimers
    /\ countdownRef' = NoTimer
    /\ inflight' = {[a EXCEPT !.stopped = TRUE] : a \in inflight}
    /\ lastEvent' = IF config.isActive THEN "stopActive" ELSE "stopPaused"
    /\ UNCHANGED <<phase, currentTier, sliderValue, swapHistory, totalSwapped,
                   isExecutingSwap, balance, address, rendered, nextAttempt,
                   swapCalls, priceCalls, refreshRequests, recorded, inputs>>

CountdownTick(id) ==
    /\ phase = "mounted"
    /\ id \in countdownTimers
    /\ config' = [config EXCEPT !.nextSwapIn = CountdownValue(config.nextSwapIn)]
    /\ lastEvent' = "-"
    /\ UNCHANGED <<phase, currentTier, sliderValue, swapHistory, totalSwapped,
                   isExecutingSwap, intervalRef, countdownRef, actionTimers,
                   countdownTimers, balance, address, rendered, inflight,
                   nextAttempt, swapCalls, priceCalls, refreshRequests, recorded,
                   inputs>>

(* the cleanup of the mount effect: the tickers held in the refs are cleared *)
Unmount ==
    /\ phase = "mounted"
    /\ phase' = "unmounted"
    /\ actionTimers' = IF intervalRef # NoTimer
                       THEN ClearAction(actionTimers, intervalRef)
                       ELSE actionTimers
    /\ countdownTimers' = IF countdownRef # NoTimer
                          THEN ClearCountdown(countdownTimers, countdownRef)
                          ELSE countdownTimers
    /\ lastEvent' = "-"
    /\ UNCHANGED <<config, currentTier, sliderValue, swapHistory, totalSwapped,
                   isExecutingSwap, intervalRef, countdownRef, balance, address,
                   rendered, inflight, nextAttempt, swapCalls, priceCalls,
                   refreshRequests, recorded, inputs>>

----------------------------------------------------------------------------
(* Executor: one attempt *)

(* executeRealSwap up to its first await: where the call is suspended *)
ExecuteRealSwapEntry(sourceToken, targetToken, amountIn) ==
    IF amountIn <= 0
    THEN [pc |-> "simulate", errorMessage |-> ClassifyError("Invalid swap amount")]
    ELSE IF sourceToken.symbol \notin TOKEN_ADDRESSES
            \/ targetToken.symbol \notin TOKEN_ADDRESSES
    THEN [pc |-> "simulate", errorMessage |-> ClassifyError("Unsupported token pair")]
    ELSE [pc |-> "prices", errorMessage |-> ""]

NewAttempt(cl, origin) ==
    LET amountIn == ToFixed2(SwapAmount(cl))
        entry == ExecuteRealSwapEntry(cl.sourceToken, cl.targetToken, amountIn)
    IN  [id |-> nextAttempt + 1, origin |-> origin, pc |-> entry.pc,
         sourceToken |-> cl.sourceToken, targetToken |-> cl.targetToken,
         amountIn |-> amountIn, address |-> cl.address,
         errorMessage |-> entry.errorMessage, stopped |-> FALSE]

(* executeSingleSwap called with the closure cl, up to its first suspension *)
(* or its return; a tick's runSwap resets the countdown once it returned.   *)
executeSingleSwap(cl, origin) ==
    IF EarlyReturn(cl) # ""
    THEN /\ lastEvent' = IF cl.isExecutingSwap THEN "attemptInProgress"
                                               ELSE "attemptNoWallet"
         /\ config' = IF origin = "tick" THEN SetState(config, ResetCountdown(config))
                                         ELSE config
         /\ UNCHANGED <<swapHistory, totalSwapped, recorded, isExecutingSwap,
                        inflight, nextAttempt, swapCalls, priceCalls>>
    ELSE IF ThrownError(cl) # ""
    THEN /\ handleOnchainKitSwap(ErrorResult(ThrownError(cl)))
         /\ isExecutingSwap' = SetState(isExecutingSwap, FALSE)
         /\ lastEvent' = "-"
         /\ config' = IF origin = "tick" THEN SetState(config, ResetCountdown(config))
                                         ELSE config
         /\ UNCHANGED <<inflight, nextAttempt, swapCalls, priceCalls>>
    ELSE /\ isExecutingSwap' = SetState(isExecutingSwap, TRUE)
         /\ inflight' = inflight \cup {NewAttempt(cl, origin)}
         /\ nextAttempt' = nextAttempt + 1
         /\ priceCalls' = priceCalls + 1
         /\ lastEvent' = "-"
         /\ UNCHANGED <<config, swapHistory, totalSwapped, recorded, swapCalls>>

(* a firing of the action ticker t: runSwap *)
RunSwap(t) ==
    /\ phase # "created"
    /\ t \in actionTimers
    /\ executeSingleSwap(t.closure, "tick")
    /\ UNCHANGED <<phase, currentTier, sliderValue, intervalRef, countdownRef,
                   actionTimers, countdownTimers, balance, address, rendered,
                   refreshRequests, inputs>>

(* executeSwap called by the hook's user with the callback of the last render *)
ExecuteSwap ==
    /\ phase = "mounted"
    /\ executeSingleSwap(rendered, "direct")
    /\ UNCHANGED <<phase, currentTier, sliderValue, intervalRef, countdownRef,
                   actionTimers, countdownTimers, balance, address, rendered,
                   refreshRequests, inputs>>

(* the attempt handleInvisibleSwap hands to executeRealSwap: 1% of the balance *)
ManualAttempt(cl) ==
    LET amountUSD == ToFixed2(ParseFloat(BalanceOrZero(cl.balance)) * ManualPercentage)
        entry == ExecuteRealSwapEntry(cl.sourceToken, cl.targetToken, amountUSD)
    IN  [id |-> nextAttempt + 1, origin |-> "manual", pc |-> entry.pc,
         sourceToken |-> cl.sourceToken, targetToken |-> cl.targetToken,
         amountIn |-> amountUSD, address |-> cl.address,
         errorMessage |-> entry.errorMessage, stopped |-> FALSE]

(* the manual trigger of the interface: InvisibleSwapTransaction's button.  Its *)
(* isLoading flag is set while its own call of executeRealSwap is unresolved;   *)
(* a click is handled after the render that follows the previous click.         *)
handleInvisibleSwap ==
    /\ phase = "mounted"
    /\ LET isLoading == \E a \in inflight : a.origin = "manual"
           disabled == ParseFloat(BalanceOrZero(rendered.balance)) = 0
       IN  IF rendered.address = NoAddress \/ ~sendTransactionAvailable
                \/ isLoading \/ disabled
           THEN /\ lastEvent' = "manualRefused"
                /\ UNCHANGED <<inflight, nextAttempt, priceCalls>>
           ELSE /\ inflight' = inflight \cup {ManualAttempt(rendered)}
                /\ nextAttempt' = nextAttempt + 1
                /\ priceCalls' = priceCalls + 1
                /\ lastEvent' = "-"
    /\ UNCHANGED <<phase, config, currentTier, sliderValue, swapHistory,
                   totalSwapped, isExecutingSwap, intervalRef, countdownRef,
                   actionTimers, countdownTimers, balance, address, rendered,
                   swapCalls, refreshRequests, recorded, inputs>>

(* both price lookups answered; sendTransaction is called *)
PricesResolved(a) ==
    /\ a \in inflight
    /\ a.pc = "prices"
    /\ inflight' = (inflight \ {a}) \cup {[a EXCEPT !.pc = "send"]}
    /\ priceCalls' = priceCalls + 1
    /\ swapCalls' = swapCalls + 1
    /\ lastEvent' = "-"
    /\ UNCHANGED <<phase, config, currentTier, sliderValue, swapHistory,
                   totalSwapped, isExecutingSwap, intervalRef, countdownRef,
                   actionTimers, countdownTimers, balance, address, rendered,
                   nextAttempt, refreshRequests, recorded, inputs>>

(* executeRealSwap returned result: the rest of executeSingleSwap and of runSwap, *)
(* or, for a manual attempt, the rest of handleInvisibleSwap                     *)
Complete(a, result) ==
    /\ handleOnchainKitSwap(result)
    /\ refreshRequests' = IF result.success /\ a.origin # "manual"
                           THEN refreshRequests + 1
                           ELSE refreshRequests
    /\ isExecutingSwap' = IF a.origin = "manual" THEN isExecutingSwap
                                                 ELSE SetState(isExecutingSwap, FALSE)
    /\ config' = IF a.origin = "tick" THEN SetState(config, ResetCountdown(config))
                                      ELSE config
    /\ inflight' = inflight \ {a}
    /\ lastEvent' = IF a.stopped THEN "resolvedAfterStop" ELSE "-"
    /\ UNCHANGED <<phase, currentTier, sliderValue, intervalRef, countdownRef,
                   actionTimers, countdownTimers, balance, address, rendered,
                   nextAttempt, swapCalls, priceCalls, inputs>>

(* sendTransaction resolved with a transaction hash *)
SendResolved(a) ==
    /\ a \in inflight
    /\ a.pc = "send"
    /\ Complete(a, RealResult(a))

(* a rejected submission sent again within the same attempt *)
SendRejected_Resubmits(a, message) ==
    /\ a \in inflight
    /\ a.pc = "send"
    /\ swapCalls' = swapCalls + 1
    /\ lastEvent' = "-"
    /\ UNCHANGED <<phase, config, currentTier, sliderValue, swapHistory,
                   totalSwapped, isExecutingSwap, intervalRef, countdownRef,
                   actionTimers, countdownTimers, balance, address, rendered,
                   inflight, nextAttempt, priceCalls, refreshRequests, recorded,
                   inputs>>

(* a rejection of sendTransaction that no catch block takes: the attempt ends *)
(* with the exception and hands no result over                               *)
SendRejected_Propagates(a, message) ==
    /\ a \in inflight
    /\ a.pc = "send"
    /\ inflight' = inflight \ {a}
    /\ isExecutingSwap' = FALSE
    /\ lastEvent' = "-"
    /\ UNCHANGED <<phase, config, currentTier, sliderValue, swapHistory,
                   totalSwapped, intervalRef, countdownRef, actionTimers,
                   countdownTimers, balance, address, rendered, nextAttempt,
                   swapCalls, priceCalls, refreshRequests, recorded, inputs>>

(* sendTransaction rejected with message: the catch block starts the simulation *)
SendRejected(a, message) ==
    /\ a \in inflight
    /\ a.pc = "send"
    /\ inflight' = (inflight \ {a}) \cup
                   {[a EXCEPT !.pc = "simulate",
                              !.errorMessage = ClassifyError(message)]}
    /\ priceCalls' = priceCalls + 1
    /\ lastEvent' = "-"
    /\ UNCHANGED <<phase, config, currentTier, sliderValue, swapHistory,
                   totalSwapped, isExecutingSwap, intervalRef, countdownRef,
                   actionTimers, countdownTimers, balance, address, rendered,
                   nextAttempt, swapCalls, refreshRequests, recorded, inputs>>

(* enhancedSimulation returned, with isSuccess = Math.random() > 0.05 *)
SimulationDone(a, isSuccess) ==
    /\ a \in inflight
    /\ a.pc = "simulate"
    /\ Complete(a, SimulationResult(a, isSuccess))

----------------------------------------------------------------------------
(* Reconfiguration and wallet events.  Each is a user or wallet event: React *)
(* has committed the pending render before it is handled and commits the     *)
(* next one, with its effects, before any other event.                       *)

Committed == phase = "mounted" /\ rendered = View

handleSliderChange(value) ==
    /\ Committed
    /\ value # sliderValue
    /\ sliderValue' = value
    /\ config' = FrequencyEffect(config, value, currentTier)
    /\ rendered' = ViewOf(config', balance, address, isExecutingSwap)
    /\ inputs' = inputs + 1
    /\ lastEvent' = "-"
    /\ UNCHANGED <<phase, currentTier, swapHistory, totalSwapped, isExecutingSwap,
                   intervalRef, countdownRef, actionTimers, countdownTimers,
                   balance, address, inflight, nextAttempt, swapCalls, priceCalls,
                   refreshRequests, recorded>>

(* a tier change that keeps the control value *)
handleTierChange_KeepsValue(newTier) ==
    /\ Committed
    /\ newTier # currentTier
    /\ currentTier' = newTier
    /\ config' = FrequencyEffect(config, sliderValue, newTier)
    /\ rendered' = ViewOf(config', balance, address, isExecutingSwap)
    /\ inputs' = inputs + 1
    /\ lastEvent' = "-"
    /\ UNCHANGED <<phase, sliderValue, swapHistory, totalSwapped, isExecutingSwap,
                   intervalRef, countdownRef, actionTimers, countdownTimers,
                   balance, address, inflight, nextAttempt, swapCalls, priceCalls,
                   refreshRequests, recorded>>

handleTierChange(newTier) ==
    /\ Committed
    /\ newTier # currentTier \/ sliderValue # 50
    /\ currentTier' = newTier
    /\ sliderValue' = 50
    /\ config' = FrequencyEffect(config, 50, newTier)
    /\ rendered' = ViewOf(config', balance, address, isExecutingSwap)
    /\ inputs' = inputs + 1
    /\ lastEvent' = "-"
    /\ UNCHANGED <<phase, swapHistory, totalSwapped, isExecutingSwap,
                   intervalRef, countdownRef, actionTimers, countdownTimers,
                   balance, address, inflight, nextAttempt, swapCalls, priceCalls,
                   refreshRequests, recorded>>

updateTokens(source, target) ==
    /\ Committed
    /\ <<source, target>> # <<config.sourceToken, config.targetToken>>
    /\ config' = [config EXCEPT !.sourceToken = source, !.targetToken = target]
    /\ rendered' = ViewOf(config', balance, address, isExecutingSwap)
    /\ inputs' = inputs + 1
    /\ lastEvent' = "-"
    /\ UNCHANGED <<phase, currentTier, sliderValue, swapHistory, totalSwapped,
                   isExecutingSwap, intervalRef, countdownRef, actionTimers,
                   countdownTimers, balance, address, inflight, nextAttempt,
                   swapCalls, priceCalls, refreshRequests, recorded>>

(* the two assignments made one after the other: both tokens end as the *)
(* former target                                                        *)
swapTokens_Sequential ==
    /\ Committed
    /\ config' = [config EXCEPT !.sourceToken = config.targetToken]
    /\ config' # config
    /\ rendered' = ViewOf(config', balance, address, isExecutingSwap)
    /\ inputs' = inputs + 1
    /\ lastEvent' = "-"
    /\ UNCHANGED <<phase, currentTier, sliderValue, swapHistory, totalSwapped,
                   isExecutingSwap, intervalRef, countdownRef, actionTimers,
                   countdownTimers, balance, address, inflight, nextAttempt,
                   swapCalls, priceCalls, refreshRequests, recorded>>

swapTokens ==
    /\ Committed
    /\ config' = [config EXCEPT !.sourceToken = config.targetToken,
                                !.targetToken = config.sourceToken]
    /\ config' # config
    /\ rendered' = ViewOf(config', balance, address, isExecutingSwap)
    /\ inputs' = inputs + 1
    /\ lastEvent' = "-"
    /\ UNCHANGED <<phase, currentTier, sliderValue, swapHistory, totalSwapped,
                   isExecutingSwap, intervalRef, countdownRef, actionTimers,
                   countdownTimers, balance, address, inflight, nextAttempt,
                   swapCalls, priceCalls, refreshRequests, recorded>>

(* the wallet reports another balance, or the account connects or disconnects *)
WalletChange(b, a) ==
    /\ Committed
    /\ (b # balance /\ a = address) \/ (b = balance /\ a # address)
    /\ balance' = b
    /\ address' = a
    /\ rendered' = ViewOf(config, b, a, isExecutingSwap)
    /\ inputs' = inputs + 1
    /\ lastEvent' = "-"
    /\ UNCHANGED <<phase, config, currentTier, sliderValue, swapHistory,
                   totalSwapped, isExecutingSwap, intervalRef, countdownRef,
                   actionTimers, countdownTimers, inflight, nextAttempt,
                   swapCalls, priceCalls, refreshRequests, recorded>>

----------------------------------------------------------------------------
(* A caller hands a result to handleOnchainKitSwap (onSwapComplete) *)

SampleResults ==
    { [NoResult EXCEPT !.success = TRUE, !.amountIn = 500, !.amountOut = "expected",
                       !.txHash = TRUE, !.price = TRUE, !.isReal = "true"],
      [NoResult EXCEPT !.error = "Swap failed", !.amountIn = 300, !.amountOut = "0"] }

(* the n-th result handed over carries n, to tell the entries apart *)
OnSwapComplete(result) ==
    /\ phase = "mounted"
    /\ handleOnchainKitSwap([result EXCEPT !.attempt = Len(recorded) + 1])
    /\ lastEvent' = "-"
    /\ UNCHANGED <<phase, config, currentTier, sliderValue, isExecutingSwap,
                   intervalRef, countdownRef, actionTimers, countdownTimers,
                   balance, address, rendered, inflight, nextAttempt, swapCalls,
                   priceCalls, refreshRequests, inputs>>

----------------------------------------------------------------------------
(* Specifications *)

(* what the model follows: MaxRecords attempts, MaxTimers action tickers, *)
(* MaxCountdownTicks countdown firings below the frequency, MaxInputs events *)
AttemptRoom == Len(recorded) + Cardinality(inflight) < MaxRecords
TimerRoom == Cardinality(actionTimers) < MaxTimers
InputRoom == inputs < MaxInputs
CountdownFollowed ==
    \/ config.nextSwapIn = NoTime
    \/ LET ds == config.frequency.s - config.nextSwapIn.s
       IN  /\ ds <= MaxCountdownTicks
           /\ ds * 1000 + config.frequency.ms - config.nextSwapIn.ms
                < MaxCountdownTicks * CountdownStep

Resolve ==
    \/ \E a \in inflight : PricesResolved(a)
    \/ \E a \in inflight : SendResolved(a)
    \/ \E a \in inflight, message \in SendErrors : SendRejected(a, message)
    \/ \E a \in inflight, isSuccess \in BOOLEAN : SimulationDone(a, isSuccess)

Reconfigure ==
    \/ \E value \in SliderChoices : handleSliderChange(value)
    \/ \E newTier \in Tiers : handleTierChange(newTier)
    \/ \E source \in TokenChoices, target \in TokenChoices : updateTokens(source, target)
    \/ swapTokens
    \/ \E b \in BalanceChoices, a \in {NoAddress, UserAddress} : WalletChange(b, a)

(* The scheduler in a fixed configuration: start, stop, tickers, attempts. *)
Next ==
    \/ Mount
    \/ Render
    \/ TimerRoom /\ StartDCA
    \/ StopDCA
    \/ CountdownFollowed /\ \E id \in countdownTimers : CountdownTick(id)
    \/ AttemptRoom /\ \E t \in actionTimers : RunSwap(t)
    \/ AttemptRoom /\ ExecuteSwap
    \/ Resolve

Spec == Init /\ [][Next]_vars

(* The scheduler under reconfiguration: one action ticker and one attempt *)
(* at a time, with tier, control value, token and wallet events.          *)
NextConfig ==
    \/ Mount
    \/ Render
    \/ actionTimers = {} /\ StartDCA
    \/ StopDCA
    \/ CountdownFollowed /\ \E id \in countdownTimers : CountdownTick(id)
    \/ inflight = {} /\ AttemptRoom /\ \E t \in actionTimers : RunSwap(t)
    \/ inflight = {} /\ AttemptRoom /\ ExecuteSwap
    \/ Resolve
    \/ InputRoom /\ Reconfigure

SpecConfig == Init /\ [][NextConfig]_vars

(* The history and the total under a sequence of recorded outcomes. *)
NextRecord ==
    \/ Mount
    \/ Len(recorded) < MaxHistoryCalls /\ \E result \in SampleResults : OnSwapComplete(result)

SpecRecord == Init /\ [][NextRecord]_vars

(* The frequency under tier and control value changes, Paused and Active. *)
NextFrequency ==
    \/ Mount
    \/ Render
    \/ actionTimers = {} /\ StartDCA
    \/ StopDCA
    \/ CountdownFollowed /\ \E id \in countdownTimers : CountdownTick(id)
    \/ inputs < MaxFrequencyInputs
         /\ \E value \in FrequencyValues : handleSliderChange(value)
    \/ inputs < MaxFrequencyInputs
         /\ \E newTier \in Tiers : handleTierChange(newTier)

SpecFrequency == Init /\ [][NextFrequency]_vars

(* The scheduler with teardown: start, stop, unmount, tickers, attempts. *)
NextTeardown ==
    \/ Mount
    \/ Render
    \/ TimerRoom /\ StartDCA
    \/ StopDCA
    \/ Unmount
    \/ AttemptRoom /\ \E t \in actionTimers : RunSwap(t)
    \/ Resolve

SpecTeardown == Init /\ [][NextTeardown]_vars

(* The scheduler with the manual trigger of the interface. *)
NextManual ==
    \/ Mount
    \/ Render
    \/ actionTimers = {} /\ StartDCA
    \/ StopDCA
    \/ AttemptRoom /\ \E t \in actionTimers : RunSwap(t)
    \/ AttemptRoom /\ handleInvisibleSwap
    \/ Resolve
    \/ InputRoom /\ \E source \in TokenChoices, target \in TokenChoices :
                        updateTokens(source, target)

SpecManual == Init /\ [][NextManual]_vars

(* The countdown followed down to 0 for the frequencies below *)
(* MaxCountdownSeconds, with scheduled attempts and frequency changes.      *)
CountdownNear ==
    /\ config.frequency.s < MaxCountdownSeconds
    /\ config.nextSwapIn.s < MaxCountdownSeconds

NextCountdown ==
    \/ Mount
    \/ Render
    \/ actionTimers = {} /\ StartDCA
    \/ StopDCA
    \/ (CountdownNear \/ CountdownFollowed)
         /\ \E id \in countdownTimers : CountdownTick(id)
    \/ inputs < MaxFrequencyInputs
         /\ \E value \in FrequencyValues : handleSliderChange(value)
    \/ inputs < MaxFrequencyInputs
         /\ \E newTier \in Tiers : handleTierChange(newTier)
    \/ inflight = {} /\ AttemptRoom /\ \E t \in actionTimers : RunSwap(t)
    \/ Resolve

SpecCountdown == Init /\ [][NextCountdown]_vars

(* The frequency mapper applied by the handlers to every control value of *)
(* 0..100 in every tier, and to a tier that is not configured.            *)
NextMapper ==
    \/ Mount
    \/ inputs < MaxMapperInputs
         /\ \E value \in ControlValues : handleSliderChange(value)
    \/ inputs < MaxMapperInputs
         /\ \E newTier \in Tiers \cup UnknownTiers : handleTierChange(newTier)

SpecMapper == Init /\ [][NextMapper]_vars

(* The preconditions of an attempt under every balance string the hook *)
(* may be handed, a negative one included, with token and wallet events. *)
NextPreconditions ==
    \/ Mount
    \/ Render
    \/ actionTimers = {} /\ StartDCA
    \/ StopDCA
    \/ AttemptRoom /\ \E t \in actionTimers : RunSwap(t)
    \/ AttemptRoom /\ ExecuteSwap
    \/ Resolve
    \/ InputRoom /\ \E source \in TokenChoices, target \in TokenChoices :
                        updateTokens(source, target)
    \/ InputRoom /\ \E b \in PreconditionBalances, a \in {NoAddress, UserAddress} :
                        WalletChange(b, a)

SpecPreconditions == Init /\ [][NextPreconditions]_vars

(* The executor and its fallback simulation, called by the tickers and by *)
(* the manual trigger, under the balances the wallet may report.          *)
NextFallback ==
    \/ Mount
    \/ Render
    \/ actionTimers = {} /\ StartDCA
    \/ StopDCA
    \/ AttemptRoom /\ \E t \in actionTimers : RunSwap(t)
    \/ AttemptRoom /\ handleInvisibleSwap
    \/ Resolve
    \/ InputRoom /\ \E b \in ManualBalances : WalletChange(b, address)

SpecFallback == Init /\ [][NextFallback]_vars

(* The executor under every kind of error of sendTransaction: one ticker, *)
(* one attempt at a time.                                                 *)
NextClassify ==
    \/ Mount
    \/ Render
    \/ actionTimers = {} /\ StartDCA
    \/ inflight = {} /\ AttemptRoom /\ \E t \in actionTimers : RunSwap(t)
    \/ \E a \in inflight : PricesResolved(a)
    \/ \E a \in inflight : SendResolved(a)
    \/ \E a \in inflight, message \in SwapErrors : SendRejected(a, message)
    \/ \E a \in inflight, isSuccess \in BOOLEAN : SimulationDone(a, isSuccess)

SpecClassify == Init /\ [][NextClassify]_vars

(* a firing of an armed action ticker: one that meets a set guard is *)
(* followed however many outcomes were recorded                      *)
TickerFires ==
    \E t \in actionTimers :
        (AttemptRoom \/ t.closure.isExecutingSwap) /\ RunSwap(t)

(* a firing of an armed countdown ticker *)
CountdownFires ==
    CountdownFollowed /\ \E id \in countdownTimers : CountdownTick(id)

(* the scheduler with its attempts resolving *)
NextRelease ==
    \/ Mount
    \/ Render
    \/ TimerRoom /\ StartDCA
    \/ StopDCA
    \/ CountdownFires
    \/ TickerFires
    \/ AttemptRoom /\ ExecuteSwap
    \/ Resolve

(* sendTransaction, the price lookups and the fallback simulation answer   *)
(* every call, React renders after every change of state, and an interval *)
(* fires for as long as it is armed                                        *)
SpecRelease ==
    /\ Init /\ [][NextRelease]_vars
    /\ WF_vars(Resolve) /\ WF_vars(Render)
    /\ WF_vars(TickerFires) /\ WF_vars(CountdownFires)

----------------------------------------------------------------------------
(* Properties *)

RECURSIVE SumSuccess(_)
(* the sum of amountIn over the successful outcomes of a sequence *)
SumSuccess(outcomes) ==
    IF outcomes = <<>> THEN 0
    ELSE SumSuccess(Tail(outcomes))
           + (IF Head(outcomes).success THEN Head(outcomes).amountIn ELSE 0)

(* the observable state a stop in Paused has to leave alone *)
observable == <<config, currentTier, sliderValue, swapHistory, totalSwapped,
                isExecutingSwap>>

(* the tickers and what start has to leave alone when it refuses *)
scheduling == <<config, intervalRef, countdownRef, actionTimers, countdownTimers,
                inflight, nextAttempt, swapCalls, priceCalls, recorded>>

(* C1: at most one swap attempt is outstanding at any time: an attempt that *)
(* begins while another one is unresolved is rejected and submits nothing,  *)
(* also when an attempt lasts longer than the period of the action ticker.  *)
C1_OneOutstandingAttempt == Cardinality(inflight) <= 1

(* C2: an attempt that was in flight when stopDCA was called still has its  *)
(* outcome, success or failure, prepended to swapHistory when it resolves,  *)
(* and a successful one is still added to totalSwapped.                     *)
C2_StopKeepsInflightOutcome ==
    [][\A a \in inflight :
          (a.stopped /\ \A b \in inflight' : b.id # a.id)
            => /\ swapHistory' # <<>>
               /\ swapHistory'[1].attempt = a.id
               /\ swapHistory'[1].amountIn = a.amountIn
               /\ recorded' = Append(recorded, swapHistory'[1])
               /\ totalSwapped' = totalSwapped
                     + (IF swapHistory'[1].success THEN a.amountIn ELSE 0)]_vars

(* C2 witness: a successful attempt resolved after the stop, while Paused,  *)
(* heads the history and makes up the total.                                *)
C2_Witness ==
    /\ lastEvent = "resolvedAfterStop"
    /\ ~config.isActive
    /\ swapHistory # <<>>
    /\ swapHistory[1].success
    /\ swapHistory[1].attempt = nextAttempt
    /\ swapHistory[1].amountIn = 500
    /\ totalSwapped = 500

(* C3: after stopDCA returned no scheduled attempt begins until a later     *)
(* startDCA succeeds: a firing of the action ticker starts an attempt only  *)
(* while isActive, whatever sequence of start and stop calls came before.   *)
C3_NoScheduledAttemptWhilePaused ==
    [][\A a \in inflight' :
          (a.origin = "tick" /\ a.id > nextAttempt) => config.isActive]_vars

(* C4: whenever isActive is false, nextSwapIn is 0; an attempt in flight at *)
(* the stop does not set it back to the frequency when it resolves.         *)
C4_PausedCountdownIsZero == ~config.isActive => config.nextSwapIn = NoTime

(* C5: startDCA with a zero balance ('0', '0.00' or absent) is rejected on  *)
(* the spot: config keeps isActive and nextSwapIn, no ticker is armed and   *)
(* no attempt is made.                                                      *)
C5_StartWithZeroBalanceRefused ==
    [][/\ (StartDCA /\ ParseFloat(BalanceOrZero(balance)) = 0)
            => (UNCHANGED scheduling /\ lastEvent' # "startOk")
       /\ \A b \in {"0", "0.00", NoBalance} :
            StartGuard([rendered EXCEPT !.isActive = FALSE, !.balance = b])
              = "startZero"]_vars

(* C5 witness: Paused with balance '0.00', start was just refused: nothing  *)
(* armed, nothing attempted.                                                *)
C5_Witness ==
    /\ lastEvent = "startZero"
    /\ balance = "0.00"
    /\ ~config.isActive
    /\ config.nextSwapIn = NoTime
    /\ actionTimers = {}
    /\ countdownTimers = {}
    /\ nextAttempt = 0

(* C6: startDCA while Active is a no-op; at most one action ticker and one  *)
(* countdown ticker are armed, and every armed ticker is the one held in    *)
(* its ref, which stopDCA cancels.                                          *)
C6_OneTickerEach ==
    /\ [][(StartDCA /\ config.isActive) => UNCHANGED scheduling]_vars
    /\ [](/\ Cardinality(actionTimers) <= 1
          /\ Cardinality(countdownTimers) <= 1
          /\ \A t \in actionTimers : t.id = intervalRef
          /\ \A id \in countdownTimers : id = countdownRef)

(* C7: stopDCA in Active cancels the action ticker and the countdown ticker *)
(* and sets isActive false and nextSwapIn 0; in Paused it changes nothing   *)
(* observable.                                                              *)
C7_StopCancelsBothTickers ==
    [][StopDCA =>
          IF config.isActive
          THEN /\ actionTimers' = {}
               /\ countdownTimers' = {}
               /\ ~config'.isActive
               /\ config'.nextSwapIn = NoTime
          ELSE UNCHANGED observable]_vars

(* C8: swapHistory has length min(n, 10) for n recorded outcomes and holds  *)
(* the 10 most recent ones, newest first.                                   *)
C8_HistoryBoundAndOrder ==
    /\ Len(swapHistory) = Min(Len(recorded), 10)
    /\ \A i \in 1..Len(swapHistory) :
          swapHistory[i] = recorded[Len(recorded) - i + 1]

(* C8 witness: eleven outcomes recorded, the first one evicted. *)
C8_Witness ==
    /\ Len(recorded) = 11
    /\ Len(swapHistory) = 10
    /\ swapHistory[1].attempt = 11
    /\ swapHistory[10].attempt = 2

(* C9: totalSwapped is the sum of amountIn over every successful outcome    *)
(* recorded since creation, evicted ones included; a failed outcome adds    *)
(* nothing.                                                                 *)
C9_TotalIsSumOfSuccesses == totalSwapped = SumSuccess(recorded)

(* C9 witness: a success that has left the history, then a failure, then a  *)
(* success: the total counts the two successes and not the failure.         *)
C9_Witness ==
    /\ Len(recorded) = 11
    /\ recorded[1].success
    /\ ~recorded[2].success /\ recorded[2].amountIn = 300
    /\ recorded[3].success
    /\ \A i \in 4..11 : ~recorded[i].success
    /\ totalSwapped = 1000
    /\ SumSuccess(swapHistory) = 500

(* C10: an attempt that fails a precondition calls neither the swap         *)
(* operation nor the price service; once the source and target tokens of    *)
(* config have the same address, no attempt reaches the executor.           *)
C10_NoCallOnFailedPrecondition ==
    [][/\ \A t \in actionTimers :
            (RunSwap(t) /\ (EarlyReturn(t.closure) # "" \/ ThrownError(t.closure) # ""))
              => UNCHANGED <<swapCalls, priceCalls, nextAttempt, inflight>>
       /\ (ExecuteSwap /\ (EarlyReturn(rendered) # "" \/ ThrownError(rendered) # ""))
              => UNCHANGED <<swapCalls, priceCalls, nextAttempt, inflight>>
       /\ config.sourceToken.address = config.targetToken.address
              => nextAttempt' = nextAttempt]_vars

(* the failure an attempt rejected before the executor has to leave in history *)
RejectionRecorded(reason) ==
    /\ swapHistory' # <<>>
    /\ recorded' = Append(recorded, swapHistory'[1])
    /\ ~swapHistory'[1].success
    /\ swapHistory'[1].error = reason

(* the reason an attempt with the closure cl is rejected for before the *)
(* executor, "" when it is not or when it finds an attempt in progress  *)
Rejection(cl) ==
    IF cl.isExecutingSwap THEN ""
    ELSE IF EarlyReturn(cl) # "" THEN EarlyReturn(cl)
    ELSE ThrownError(cl)

(* C11: an attempt rejected as WalletUnavailable, InsufficientBalance,      *)
(* AmountTooSmall or ValidationFailed is recorded in swapHistory as a       *)
(* failure carrying its reason, and every attempt that reached the executor *)
(* adds its outcome to the history when it resolves.                        *)
C11_RejectedAttemptsRecorded ==
    [][/\ \A t \in actionTimers :
            (RunSwap(t) /\ Rejection(t.closure) # "")
              => RejectionRecorded(Rejection(t.closure))
       /\ (ExecuteSwap /\ Rejection(rendered) # "")
              => RejectionRecorded(Rejection(rendered))
       /\ \A a \in inflight :
            (\A b \in inflight' : b.id # a.id)
              => /\ swapHistory' # <<>>
                 /\ recorded' = Append(recorded, swapHistory'[1])
                 /\ swapHistory'[1].attempt = a.id]_vars

(* the result an attempt thrown out by a precondition has to leave behind *)
ThrownRecorded(cl) ==
    (EarlyReturn(cl) = "" /\ ThrownError(cl) # "")
      => /\ swapHistory' # <<>>
         /\ recorded' = Append(recorded, swapHistory'[1])
         /\ ~swapHistory'[1].success
         /\ swapHistory'[1].error = ThrownError(cl)
         /\ ~isExecutingSwap'

(* what the entry of an attempt, from a ticker or from executeSwap, leaves *)
(* alone; tested first, it tells the steps of the other operations apart   *)
entryFrame == <<actionTimers, rendered, swapCalls, refreshRequests>>

C13_FailureKeepsSchedulerRunning ==
    [][/\ (Len(recorded') > Len(recorded) /\ ~recorded'[Len(recorded')].success)
            => /\ config'.isActive = config.isActive
               /\ UNCHANGED <<actionTimers, countdownTimers, intervalRef, countdownRef>>
       /\ \A t \in actionTimers :
            (/\ RunSwap(t)
             /\ config.isActive
             /\ t.id = intervalRef
             /\ inflight = {}
             /\ swapHistory # <<>>
             /\ ~swapHistory[1].success)
              => Len(recorded') + nextAttempt' > Len(recorded) + nextAttempt]_vars

(* the attempts in flight that have not called sendTransaction yet *)
BeforeSubmission == {a \in inflight : a.pc = "prices"}

(* C14: each attempt that passed the guard and the preconditions calls the  *)
(* swap operation exactly once: one call when its prices are in, none after *)
(* a rejected submission, so the calls made are the attempts past pricing.  *)
C14_OneSubmissionPerAttempt ==
    /\ [](swapCalls = nextAttempt - Cardinality(BeforeSubmission))
    /\ [][swapCalls' # swapCalls
            => /\ swapCalls' = swapCalls + 1
               /\ \E a \in BeforeSubmission :
                    /\ [a EXCEPT !.pc = "send"] \in inflight'
                    /\ a \notin inflight']_vars

(* C14 witness: two attempts resolved, one of them after a rejected         *)
(* submission, and two submissions were made.                               *)
C14_Witness ==
    /\ inflight = {}
    /\ nextAttempt = 2
    /\ swapCalls = 2
    /\ Len(swapHistory) = 2
    /\ swapHistory[1].noteError # ""
    /\ swapHistory[2].isReal = "true"
    /\ actionTimers # {}

(* C15: calculateFrequency gives max seconds x 1000 for the control value 0 *)
(* and min seconds x 1000 for 100 in every tier; in the tier 'seconds' that *)
(* is 60000 and 1000, and the control value 50 gives 30500.                 *)
C15_FrequencyBoundaries ==
    phase = "mounted" =>
        LET tierConfig == TierConfig(currentTier) IN
        /\ sliderValue = 0 => config.frequency = Ms(tierConfig.max, 0)
        /\ sliderValue = 100 => config.frequency = Ms(tierConfig.min, 0)
        /\ currentTier = "seconds" =>
             /\ sliderValue = 0 => config.frequency = Ms(60, 0)
             /\ sliderValue = 100 => config.frequency = Ms(1, 0)
             /\ sliderValue = 50 => config.frequency = Ms(30, 500)

(* C15 witness: the tier 'seconds' was chosen and the control moved to 100: *)
(* the frequency is 1000 ms.                                                *)
C15_Witness ==
    /\ currentTier = "seconds"
    /\ sliderValue = 100
    /\ inputs = 2
    /\ config.frequency = Ms(1, 0)

(* C16: after handleTierChange to any tier the control value is 50,         *)
(* whatever it was before and whether or not the tier changed.              *)
C16_TierChangeResetsValue ==
    [][/\ currentTier' # currentTier => sliderValue' = 50
       /\ \A newTier \in Tiers :
            handleTierChange(newTier) => (sliderValue' = 50 /\ currentTier' = newTier)]_vars

(* C16 witness: the control was moved and the tier 'days' chosen after it:  *)
(* the control value is 50 again and the frequency is that of the middle.   *)
C16_Witness ==
    /\ inputs = 2
    /\ currentTier = "days"
    /\ sliderValue = 50
    /\ config.frequency = Ms(1339200, 0)

(* C17: a change of the tier or of the control value sets config.frequency  *)
(* to calculateFrequency of the new value and tier, sets nextSwapIn to that *)
(* frequency when Active and to 0 when Paused, and leaves isActive alone.   *)
C17_ChangeRecomputesFrequency ==
    [][(sliderValue' # sliderValue \/ currentTier' # currentTier)
          => /\ config'.frequency = calculateFrequency(sliderValue', currentTier')
             /\ config'.nextSwapIn = IF config.isActive THEN config'.frequency
                                                        ELSE NoTime
             /\ config'.isActive = config.isActive
             /\ config'.sourceToken = config.sourceToken
             /\ config'.targetToken = config.targetToken]_vars

(* C17 witness: Active with a ticker armed at the old frequency; the change *)
(* to the tier 'seconds' set the frequency and the countdown to 30500 ms.   *)
C17_Witness ==
    /\ config.isActive
    /\ currentTier = "seconds"
    /\ \E t \in actionTimers : t.period = Ms(45000, 0)
    /\ config.frequency = Ms(30, 500)
    /\ config.nextSwapIn = Ms(30, 500)

(* C18: unmounting cancels both tickers whatever the state: afterwards no   *)
(* ticker is armed, so no tick fires and no new attempt is started.         *)
C18_TeardownCancelsTickers ==
    /\ [](phase = "unmounted" => (actionTimers = {} /\ countdownTimers = {}))
    /\ [][phase = "unmounted" => nextAttempt' = nextAttempt]_vars

(* C19: the manual trigger is a tick firing by other means: it submits      *)
(* nothing in a state where the attempt of a tick would have been rejected  *)
(* by the in-flight guard or by a precondition (wallet, balance, minimum    *)
(* and maximum amount, distinct tokens), and never overlaps an attempt.     *)
C19_ManualTriggerAsTick ==
    [][(handleInvisibleSwap /\ nextAttempt' # nextAttempt)
          => /\ inflight = {}
             /\ ~isExecutingSwap
             /\ EarlyReturn(View) = ""
             /\ ThrownError(View) = ""]_vars

(* C20: every successful outcome in the history carries a tag telling real  *)
(* from simulated execution; it is tagged real exactly when sendTransaction *)
(* returned, and an outcome of the fallback simulation is never tagged real. *)
C20_RealTagOnlyAfterSubmission ==
    /\ [](\A i \in 1..Len(swapHistory) :
             swapHistory[i].success => swapHistory[i].isReal \in {"true", "false"})
    /\ [][\A a \in inflight :
             (/\ \A b \in inflight' : b.id # a.id
              /\ swapHistory' # <<>>
              /\ swapHistory'[1].success)
               => /\ swapHistory'[1].attempt = a.id
                  /\ (swapHistory'[1].isReal = "true") = (a.pc = "send")
                  /\ a.pc = "simulate" => swapHistory'[1].isReal = "false"]_vars

(* C20 witness: a real execution followed by a simulated one, both          *)
(* successful, each under its own tag.                                      *)
C20_Witness ==
    /\ Len(swapHistory) = 2
    /\ swapHistory[2].success /\ swapHistory[2].isReal = "true"
    /\ swapHistory[2].noteError = ""
    /\ swapHistory[1].success /\ swapHistory[1].isReal = "false"
    /\ swapHistory[1].noteError = "Insufficient balance or liquidity"

(* C21: stop followed by start, in any number and order, leaves swapHistory *)
(* and totalSwapped as they are: neither startDCA nor stopDCA, accepted or  *)
(* refused, touches the history or the total.                               *)
C21_PauseResumeKeepsTotals ==
    [][(StartDCA \/ StopDCA) => UNCHANGED <<swapHistory, totalSwapped, recorded>>]_vars

(* C21 witness: a scheduled attempt succeeded, the scheduler was stopped    *)
(* and started again: the only ticker is the new one, the outcome and the   *)
(* total are still there.                                                   *)
C21_Witness ==
    /\ lastEvent = "startOk"
    /\ config.isActive
    /\ Cardinality(actionTimers) = 1
    /\ \A t \in actionTimers : t.id = intervalRef
    /\ Len(swapHistory) = 1
    /\ swapHistory[1].success
    /\ totalSwapped = 500

(* C22: while Active the action ticker fires with a period equal to the     *)
(* current config.frequency: after a change of the tier or of the control   *)
(* value made while Active, the armed action ticker runs at the new         *)
(* frequency, in step with the countdown that was reset to it.              *)
C22_TickerPeriodIsFrequency ==
    config.isActive => \A t \in actionTimers : t.period = config.frequency

(* C23: each scheduled attempt uses the balance, the source and target      *)
(* tokens and the wallet address current when the tick fires, not those     *)
(* captured at the start: after updateTokens, swapTokens or a balance       *)
(* change while Active the next attempt swaps the new tokens and takes its  *)
(* amount as the percentage of the new balance.                             *)
C23_AttemptUsesCurrentValues ==
    [][\A a \in inflight' :
          (a.origin = "tick" /\ a.id > nextAttempt)
            => /\ a.sourceToken = config.sourceToken
               /\ a.targetToken = config.targetToken
               /\ a.amountIn = ToFixed2(ParseFloat(BalanceOrZero(balance))
                                          * config.percentage)
               /\ a.address = address]_vars

(* C24: while the scheduler is Active, when a scheduled attempt resolves,   *)
(* with success or with failure or by a rejection before the executor,      *)
(* nextSwapIn is set to the config.frequency of that moment, and isActive   *)
(* and the frequency stay as they are.                                      *)
C24_ResolveResetsCountdown ==
    [][/\ \A a \in inflight :
            (/\ a.origin = "tick"
             /\ config.isActive
             /\ \A b \in inflight' : b.id # a.id)
              => config' = [config EXCEPT !.nextSwapIn = config.frequency]
       /\ \A t \in actionTimers :
            (config.isActive /\ nextAttempt' = nextAttempt /\ inflight' = inflight
               /\ RunSwap(t))
              => config' = [config EXCEPT !.nextSwapIn = config.frequency]]_vars

(* C24 witness: Active, the frequency was changed after the start, the      *)
(* scheduled attempt has resolved with a failure and the countdown stands   *)
(* at the new frequency, which is not the period of the ticker.             *)
C24_Witness ==
    /\ config.isActive
    /\ inflight = {}
    /\ nextAttempt = 1
    /\ Len(swapHistory) = 1
    /\ ~swapHistory[1].success
    /\ swapHistory[1].attempt = 1
    /\ config.nextSwapIn = config.frequency
    /\ \E t \in actionTimers : t.period # config.frequency

(* C25: in every reachable state 0 <= nextSwapIn <= config.frequency: a     *)
(* firing of the countdown ticker lowers nextSwapIn by 100 and never below  *)
(* 0, and no operation sets it above the frequency of the moment.           *)
C25_CountdownWithinFrequency ==
    /\ [](/\ TimeLeq(NoTime, config.nextSwapIn)
          /\ TimeLeq(config.nextSwapIn, config.frequency))
    /\ [][\A id \in countdownTimers :
            CountdownTick(id)
              => config' = [config EXCEPT !.nextSwapIn =
                               IF TimeLeq(Ms(0, CountdownStep), config.nextSwapIn)
                               THEN TimeMinus(config.nextSwapIn, CountdownStep)
                               ELSE NoTime]]_vars

(* C25 witness: Active at the frequency 1590 ms, the countdown has run from *)
(* 1590 down to 90 and then to the floor 0.                                 *)
C25_Witness ==
    /\ config.isActive
    /\ config.frequency = Ms(1, 590)
    /\ config.nextSwapIn = NoTime
    /\ countdownTimers # {}

(* C26: in every reachable state, the initial one included, config.frequency *)
(* is calculateFrequency(sliderValue, currentTier) and is positive.          *)
C26_FrequencyIsMapped ==
    /\ config.frequency = calculateFrequency(sliderValue, currentTier)
    /\ config.frequency.s >= 0 /\ config.frequency.ms >= 0
    /\ config.frequency # NoTime

(* C27 as stated: for every tier and every control value in 0..100 the      *)
(* mapper returns a whole number of seconds in milliseconds, a multiple of  *)
(* 1000.                                                                    *)
C27_WholeSeconds ==
    (phase = "mounted" /\ currentTier \in Tiers) => config.frequency.ms = 0

(* C27 amended: for every tier and every control value in 0..100 the mapper *)
(* returns min + (max - min) x (1 - value/100) seconds rounded to the       *)
(* nearest millisecond, not to the nearest second: exactly                  *)
(* (min x 100 + (max - min) x (100 - value)) x 10 ms, a multiple of 10 that *)
(* is a multiple of 1000 only when (max - min) x (100 - value) is a         *)
(* multiple of 100.                                                         *)
C27_WholeMilliseconds ==
    (phase = "mounted" /\ currentTier \in Tiers) =>
        LET tierConfig == TierConfig(currentTier)
            hundredths == tierConfig.min * 100
                            + (tierConfig.max - tierConfig.min) * (100 - sliderValue)
        IN  /\ config.frequency = Ms(hundredths \div 100, (hundredths % 100) * 10)
            /\ (config.frequency.ms = 0)
                 = (((tierConfig.max - tierConfig.min) * (100 - sliderValue)) % 100 = 0)

(* C27 witness: the tier 'minutes' at the control value 1: 3564.6 seconds,  *)
(* 3564600 ms.                                                              *)
C27_Witness ==
    /\ phase = "mounted"
    /\ currentTier = "minutes"
    /\ sliderValue = 1
    /\ config.frequency = Ms(3564, 600)

(* C28: for every configured tier the mapper is non-increasing in the       *)
(* control value over 0..100 and its result lies between min seconds x 1000 *)
(* and max seconds x 1000 of the tier.                                      *)
C28_MonotoneAndInRange ==
    /\ []((phase = "mounted" /\ currentTier \in Tiers) =>
            /\ TimeLeq(Ms(TierConfig(currentTier).min, 0), config.frequency)
            /\ TimeLeq(config.frequency, Ms(TierConfig(currentTier).max, 0)))
    /\ [][(/\ phase = "mounted"
           /\ currentTier \in Tiers
           /\ currentTier' = currentTier
           /\ sliderValue' >= sliderValue)
            => TimeLeq(config'.frequency, config.frequency)]_vars

(* C28 witness: the tier 'days', the control moved up from 50 to 51 and     *)
(* then to 100: the frequency is the tier's minimum, 86400000 ms.           *)
C28_Witness ==
    /\ phase = "mounted"
    /\ currentTier = "days"
    /\ sliderValue = 100
    /\ inputs = 3
    /\ config.frequency = Ms(86400, 0)

(* C29: for a tier that is not one of the configured tiers the mapper       *)
(* returns 3600000 ms for every control value.                              *)
C29_UnknownTierFallback ==
    (phase = "mounted" /\ currentTier \notin Tiers) => config.frequency = Ms(3600, 0)

(* C29 witness: the tier 'weeks' with the control moved to 0 and then to    *)
(* 100: the frequency is 3600000 ms.                                        *)
C29_Witness ==
    /\ phase = "mounted"
    /\ currentTier = "weeks"
    /\ sliderValue = 100
    /\ inputs = 3
    /\ config.frequency = Ms(3600, 0)

(* the first precondition, in the order AlreadyInProgress, WalletUnavailable, *)
(* InsufficientBalance, AmountTooSmall, ValidationFailed, that an attempt     *)
(* reading the values cl fails; "" when it fails none                         *)
FirstFailedCheck(cl) ==
    LET currentBalance == ParseFloat(BalanceOrZero(cl.balance))
        validation == validateRealSwap(cl.sourceToken, cl.targetToken,
                                       currentBalance * cl.percentage,
                                       BalanceOrZero(cl.balance))
    IN  IF cl.isExecutingSwap THEN "Swap already in progress"
        ELSE IF cl.address = NoAddress
        THEN "Wallet not connected or transaction function unavailable"
        ELSE IF currentBalance <= 0 THEN "Insufficient balance"
        ELSE IF currentBalance * cl.percentage < 100 THEN "Swap amount too small"
        ELSE IF ~validation.valid THEN validation.error
        ELSE ""

(* what an attempt reading the values cl reports, given its first failed check *)
ReportsFirstFailure(cl) ==
    LET reason == FirstFailedCheck(cl) IN
    CASE reason = "" -> nextAttempt' = nextAttempt + 1
      [] reason = "Swap already in progress"
           -> /\ lastEvent' = "attemptInProgress"
              /\ UNCHANGED <<nextAttempt, recorded>>
      [] reason = "Wallet not connected or transaction function unavailable"
           -> /\ lastEvent' = "attemptNoWallet"
              /\ UNCHANGED <<nextAttempt, recorded>>
      [] OTHER
           -> /\ nextAttempt' = nextAttempt
              /\ Len(recorded') = Len(recorded) + 1
              /\ ~recorded'[Len(recorded')].success
              /\ recorded'[Len(recorded')].error = reason

SimulationNote == "Smart wallet swap failed. Showing simulation."

(* C31: the fallback simulation is invoked exactly once when, and only      *)
(* when, sendTransaction raised an error: an attempt enters the simulation  *)
(* only from a rejected submission, never from a failed precondition or     *)
(* validation, a rejected submission always enters it, and the outcome of   *)
(* the simulation carries the note that the real swap failed.               *)
C31_FallbackOnlyAfterSwapError ==
    [][/\ \A b \in inflight' :
            (b.pc = "simulate"
               /\ \A a \in inflight : ~(a.id = b.id /\ a.pc = "simulate"))
              => \E a \in inflight : a.id = b.id /\ a.pc = "send"
       /\ \A a \in inflight :
            (a.pc = "send"
               /\ \A b \in inflight' : ~(b.id = a.id /\ b.pc = "send"))
              => \/ \E b \in inflight' : b.id = a.id /\ b.pc = "simulate"
                 \/ /\ Len(recorded') = Len(recorded) + 1
                    /\ recorded'[Len(recorded')].attempt = a.id
                    /\ recorded'[Len(recorded')].isReal = "true"
                    /\ recorded'[Len(recorded')].note # SimulationNote
       /\ \A a \in inflight :
            (a.pc = "simulate" /\ \A b \in inflight' : b.id # a.id)
              => /\ Len(recorded') = Len(recorded) + 1
                 /\ recorded'[Len(recorded')].attempt = a.id
                 /\ recorded'[Len(recorded')].note = SimulationNote]_vars

(* the kind of error a message of the catch block of executeRealSwap stands for *)
ErrorKind(message) ==
    CASE message = "Insufficient balance or liquidity" -> "InsufficientFunds"
      [] message = "Transaction rejected - please reconnect wallet" -> "UserRejected"
      [] message = "Network error, please try again" -> "NetworkError"
      [] OTHER -> "Unknown"

ExpectedKind(message) ==
    IF message \in {"Insufficient funds for gas", "insufficient allowance: user rejected"}
    THEN "InsufficientFunds"
    ELSE IF message \in {"User rejected the request", "User denied transaction signature",
                         "User denied network switch"}
    THEN "UserRejected"
    ELSE IF message \in {"Network request failed", "Failed to fetch"}
    THEN "NetworkError"
    ELSE "Unknown"

(* C33: an error of sendTransaction is classified from its lower-cased      *)
(* message with the precedence 'insufficient', then 'user rejected' or      *)
(* 'user denied', then 'network' or 'fetch', then unknown, which keeps the  *)
(* message; the classified error is attached to the outcome of the attempt, *)
(* in its note.                                                             *)
C33_ErrorClassification ==
    [][/\ \A a \in inflight, message \in SwapErrors :
            SendRejected(a, message)
              => \E b \in inflight' :
                    /\ b.id = a.id
                    /\ ErrorKind(b.errorMessage) = ExpectedKind(message)
                    /\ ExpectedKind(message) = "Unknown" => b.errorMessage = message
       /\ \A a \in inflight :
            (/\ a.pc = "simulate"
             /\ \A b \in inflight' : b.id # a.id
             /\ Len(recorded') = Len(recorded) + 1)
              => /\ recorded'[Len(recorded')].attempt = a.id
                 /\ recorded'[Len(recorded')].noteError = a.errorMessage
                 /\ recorded'[Len(recorded')].note = SimulationNote]_vars

(* C33 witness: a submission rejected by the user and one that reverted:    *)
(* the first outcome carries the rejection, the second the raw message.     *)
C33_Witness ==
    /\ Len(recorded) = 2
    /\ ErrorKind(recorded[1].noteError) = "UserRejected"
    /\ recorded[2].noteError = "execution reverted"
    /\ ErrorKind(recorded[2].noteError) = "Unknown"

(* C34: a balance refresh is requested exactly once after each attempt      *)
(* whose outcome has success = true and never after a failed attempt: a     *)
(* step requests one refresh when it records a successful outcome and none  *)
(* otherwise, and the outcome is recorded in the step that makes the        *)
(* request, before the refresh is run.                                      *)
C34_RefreshAfterEachSuccess ==
    [][refreshRequests' = refreshRequests
          + (IF /\ Len(recorded') = Len(recorded) + 1
                /\ recorded'[Len(recorded')].success
             THEN 1 ELSE 0)]_vars

(* what a rejected call of executeSingleSwap leaves as it was: no attempt,  *)
(* no price lookup, no submission, no outcome                               *)
attemptState == <<inflight, nextAttempt, swapCalls, priceCalls, recorded,
                  swapHistory, totalSwapped, isExecutingSwap>>

(* C35: a firing of the action ticker that is rejected because its guard    *)
(* reads an attempt in progress is dropped, not queued: it starts nothing,  *)
(* and no attempt starts later on its behalf, since every attempt starts in *)
(* the step of a firing, or of a call of executeSwap, whose guard was free; *)
(* so the submissions made never exceed the attempts started, which are     *)
(* among the firings that found the guard free.                             *)
C35_RejectedFiringIsDropped ==
    /\ [](swapCalls <= nextAttempt)
    /\ [][/\ \A t \in actionTimers :
               (t.closure.isExecutingSwap /\ UNCHANGED entryFrame /\ RunSwap(t))
                  => /\ UNCHANGED attemptState
                     /\ lastEvent' = "attemptInProgress"
          /\ (rendered.isExecutingSwap /\ UNCHANGED entryFrame /\ ExecuteSwap)
                  => /\ UNCHANGED attemptState
                     /\ lastEvent' = "attemptInProgress"
          /\ nextAttempt' # nextAttempt
               => /\ nextAttempt' = nextAttempt + 1
                  /\ \/ \E t \in actionTimers :
                           ~t.closure.isExecutingSwap /\ RunSwap(t)
                     \/ ~rendered.isExecutingSwap /\ ExecuteSwap]_vars

(* C35 witness: a firing was rejected while the one attempt started so far  *)
(* is still unresolved with its submission made: one attempt, one           *)
(* submission.                                                              *)
C35_Witness ==
    /\ lastEvent = "attemptInProgress"
    /\ Cardinality(inflight) = 1
    /\ \A a \in inflight : a.pc = "send"
    /\ nextAttempt = 1
    /\ swapCalls = 1
    /\ isExecutingSwap

(* C36: outcomes enter swapHistory in the order their attempts complete,    *)
(* and that order is the order in which the attempts started: of two        *)
(* outcomes of attempts handed to executeRealSwap, the one nearer the head  *)
(* of swapHistory belongs to the attempt that started later.                *)
C36_HistoryInStartOrder ==
    \A i, j \in 1..Len(swapHistory) :
        (i < j /\ swapHistory[i].attempt > 0 /\ swapHistory[j].attempt > 0)
          => swapHistory[i].attempt > swapHistory[j].attempt

(* C37: isExecutingSwap is true exactly while an attempt that passed the    *)
(* guard of executeSingleSwap is unresolved: the completion of one attempt  *)
(* does not clear it while another is outstanding, and a rejected call      *)
(* leaves it set.                                                           *)
C37_GuardSetWhileAttemptUnresolved ==
    isExecutingSwap <=> \E a \in inflight : a.origin # "manual"

(* C38: the in-flight guard is always released: with sendTransaction and    *)
(* the fallback simulation resolving, isExecutingSwap, once set by an       *)
(* attempt, is cleared again, whether the attempt succeeds, fails or throws *)
(* a validation error, so that no action ticker is locked out for ever:     *)
(* again and again the guard every armed ticker reads is free.              *)
C38_GuardAlwaysReleased ==
    /\ isExecutingSwap ~> ~isExecutingSwap
    /\ []<>(\A t \in actionTimers : ~t.closure.isExecutingSwap)

(* the attempts handed to executeRealSwap whose outcome has been recorded *)
resolvedAttempts == {recorded[i].attempt : i \in 1..Len(recorded)} \ {0}

(* a call of executeSingleSwap with the values cl passes the guard and the *)
(* wallet check and throws in a precondition                               *)
ThrowsPrecondition(cl) == EarlyReturn(cl) = "" /\ ThrownError(cl) # ""

(* C39: every attempt that passes the in-flight guard and the wallet check  *)
(* records exactly one outcome in swapHistory, never zero and never two: an *)
(* attempt that throws in a precondition records its failure in the step    *)
(* of the call; an attempt handed to executeRealSwap is either unresolved   *)
(* or has one outcome in the history, recorded when it resolves, on         *)
(* success and after a rejected submission alike; and nothing else adds to  *)
(* the history.                                                             *)
C39_OneOutcomePerAttempt ==
    /\ [](/\ resolvedAttempts \cup {a.id : a \in inflight} = 1..nextAttempt
          /\ resolvedAttempts \cap {a.id : a \in inflight} = {}
          /\ \A i, j \in 1..Len(recorded) :
                (i # j /\ recorded[i].attempt > 0)
                  => recorded[i].attempt # recorded[j].attempt
          /\ Len(swapHistory) = Min(Len(recorded), HistoryLimit)
          /\ \A i \in 1..Len(swapHistory) :
                swapHistory[i] = recorded[Len(recorded) + 1 - i])
    /\ [][/\ \A t \in actionTimers :
               (ThrowsPrecondition(t.closure) /\ UNCHANGED entryFrame /\ RunSwap(t))
                  => /\ recorded' = Append(recorded, ErrorResult(ThrownError(t.closure)))
                     /\ UNCHANGED <<inflight, nextAttempt>>
          /\ (ThrowsPrecondition(rendered) /\ UNCHANGED entryFrame /\ ExecuteSwap)
                  => /\ recorded' = Append(recorded, ErrorResult(ThrownError(rendered)))
                     /\ UNCHANGED <<inflight, nextAttempt>>
          /\ recorded' # recorded
               => /\ Len(recorded') = Len(recorded) + 1
                  /\ SubSeq(recorded', 1, Len(recorded)) = recorded
                  /\ \/ \E a \in inflight :
                          /\ \A b \in inflight' : b.id # a.id
                          /\ recorded'[Len(recorded')].attempt = a.id
                     \/ /\ recorded'[Len(recorded')].attempt = 0
                        /\ inflight' = inflight
                        /\ \/ \E t \in actionTimers :
                                ThrowsPrecondition(t.closure) /\ RunSwap(t)
                           \/ ThrowsPrecondition(rendered) /\ ExecuteSwap]_vars

(* C39 witness: one call threw in a precondition and one attempt resolved   *)
(* with a transaction hash: each left one outcome, two in all.              *)
C39_Witness ==
    /\ Len(swapHistory) = 2
    /\ inflight = {}
    /\ nextAttempt = 1
    /\ \E i \in 1..2 :
          /\ swapHistory[i].attempt = 0
          /\ swapHistory[i].error # ""
          /\ swapHistory[3 - i].attempt = 1
          /\ swapHistory[3 - i].success

(* what a change of tokens leaves as it was: the scheduler's state, both *)
(* tickers, the history and the total                                    *)
tokenFrame == <<config.isActive, config.frequency, config.nextSwapIn,
                config.percentage, intervalRef, countdownRef, actionTimers,
                countdownTimers, swapHistory, totalSwapped>>

(* C40: updateTokens and swapTokens change only config.sourceToken and      *)
(* config.targetToken: isActive, frequency, nextSwapIn, both tickers,       *)
(* swapHistory and totalSwapped stay as they are, Paused and Active alike;  *)
(* updateTokens stores the two tokens given, swapTokens exchanges the two,  *)
(* so two different tokens stay different.                                  *)
C40_TokenChangeFrame ==
    [][/\ \A source \in TokenChoices, target \in TokenChoices :
            (inputs' = inputs + 1 /\ updateTokens(source, target))
              => /\ UNCHANGED tokenFrame
                 /\ config'.sourceToken = source
                 /\ config'.targetToken = target
       /\ (inputs' = inputs + 1 /\ swapTokens)
              => /\ UNCHANGED tokenFrame
                 /\ config'.sourceToken = config.targetToken
                 /\ config'.targetToken = config.sourceToken
                 /\ config.sourceToken # config.targetToken
                      => config'.sourceToken # config'.targetToken]_vars

(* C40 witness: the tokens were exchanged while Active: the armed action    *)
(* ticker was started with the default pair, the configuration holds the    *)
(* pair reversed, and the countdown runs on.                                *)
C40_Witness ==
    /\ config.isActive
    /\ config.sourceToken = DEFAULT_TARGET_TOKEN
    /\ config.targetToken = DEFAULT_SOURCE_TOKEN
    /\ config.nextSwapIn # NoTime
    /\ countdownRef # NoTimer
    /\ \E t \in actionTimers :
          /\ t.id = intervalRef
          /\ t.closure.sourceToken = DEFAULT_SOURCE_TOKEN
          /\ t.closure.targetToken = DEFAULT_TARGET_TOKEN

====
